---- MODULE Spec2Model ----
(***************************************************************************)
(* Model of src/main.py: a batch pipeline that parses a log file with a    *)
(* fixed regular expression, builds four numeric features per record,      *)
(* labels the rows with an isolation forest and prints the anomalous rows  *)
(* sorted by timestamp.                                                    *)
(*                                                                         *)
(* Text is modelled character by character: a line is a sequence of        *)
(* one-character strings.  The library calls are modelled by their         *)
(* documented contracts: pd.to_datetime (errors="raise"), Series.map,      *)
(* IsolationForest.fit_predict (one value of {-1, 1} per row, ValueError   *)
(* on an empty matrix), DataFrame.sort_values (default kind="quicksort",   *)
(* which is not a stable sort) and tabulate.                               *)
(***************************************************************************)
EXTENDS Integers, Sequences, FiniteSets, TLC

VARIABLES
    fileExists,  \* whether simulated_logs.txt exists
    file,        \* the lines of the file, each with its line terminator
    pc,          \* the statement of the script that runs next
    i,           \* number of lines the parse loop has consumed
    data,        \* the list `data` of [timestamp, level, message]
    df,          \* the rows of the DataFrame `df`
    anomalies,   \* the rows of the DataFrame `anomalies`
    stdout,      \* what has been written to standard output, in order
    err          \* the uncaught exception that ended the run, or "none"

vars == <<fileExists, file, pc, i, data, df, anomalies, stdout, err>>

\* Largest number of lines of an input file.
MaxLines == 3

-----------------------------------------------------------------------------
(* Characters *)

Digits == {"0", "1", "2", "3", "4", "5", "6", "7", "8", "9"}
DigitChars == <<"0", "1", "2", "3", "4", "5", "6", "7", "8", "9">>
Letters == {"A", "B", "C", "D", "E", "F", "G", "I", "L", "N", "O", "R", "T",
            "U", "W", "a", "b", "f", "i", "k", "n", "o", "p", "s", "u", "x"}
Whitespace == {" ", "\t", "\n", "\r"}

\* \d
IsDigit(c) == c \in Digits
\* (a pattern written with \S+ for the level: any character but whitespace)
IsWord_NonSpace(c) == c \notin Whitespace

\* \w
IsWord(c) == c \in Digits \cup Letters \cup {"_"}
\* . (any character but a newline)
IsDot(c) == c # "\n"

DigitVal(c) == (CHOOSE n \in 1..10 : DigitChars[n] = c) - 1

\* int() of a run of digits
RECURSIVE Num(_)
Num(s) == IF s = <<>> THEN 0
          ELSE 10 * Num(SubSeq(s, 1, Len(s) - 1)) + DigitVal(s[Len(s)])

-----------------------------------------------------------------------------
(* line.strip() *)

RECURSIVE LStrip(_)
LStrip(s) == IF s # <<>> /\ s[1] \in Whitespace THEN LStrip(Tail(s)) ELSE s

RECURSIVE RStrip(_)
RStrip(s) == IF s # <<>> /\ s[Len(s)] \in Whitespace
             THEN RStrip(SubSeq(s, 1, Len(s) - 1)) ELSE s

\* (line.rstrip() in place of line.strip())
Strip_Right(s) == RStrip(s)

Strip(s) == RStrip(LStrip(s))

-----------------------------------------------------------------------------
(* re.match(pattern, s) with                                               *)
(* pattern = ^(\d{4}-\d{2}-\d{2}) (\d{2}:\d{2}:\d{2}) (\w+) (.+)$          *)

NoMatch == <<>>

\* The fixed-width head of the pattern: date, space, time, space.
HeadMatches(s) ==
    /\ Len(s) >= 20
    /\ \A p \in {1, 2, 3, 4, 6, 7, 9, 10, 12, 13, 15, 16, 18, 19} : IsDigit(s[p])
    /\ s[5] = "-" /\ s[8] = "-"
    /\ s[11] = " "
    /\ s[14] = ":" /\ s[17] = ":"
    /\ s[20] = " "

\* Where $ matches: at the end of the string and just before a newline that
\* ends it.
EndPositions(s) ==
    {Len(s)} \cup (IF s # <<>> /\ s[Len(s)] = "\n" THEN {Len(s) - 1} ELSE {})

\* Whether " (.+)$" matches from position k + 1 on.
TailMatches(s, k) ==
    /\ k + 1 <= Len(s)
    /\ s[k + 1] = " "
    /\ \E e \in EndPositions(s) :
          e >= k + 2 /\ \A j \in (k + 2)..e : IsDot(s[j])

\* The positions at which (\w+), started at 21, can end so that the rest of
\* the pattern still matches.
LevelEnds(s) ==
    {k \in 21..Len(s) : (\A j \in 21..k : IsWord(s[j])) /\ TailMatches(s, k)}

SetMax(S) == CHOOSE m \in S : \A n \in S : n <= m

\* The match object as <<group(1), group(2), group(3), group(4)>>, or NoMatch.
\* \w+ and .+ are greedy: the engine keeps the longest level for which the
\* rest matches, and then the longest message.
Match(s) ==
    IF HeadMatches(s) /\ LevelEnds(s) # {}
    THEN LET k == SetMax(LevelEnds(s))
             e == SetMax({n \in EndPositions(s) :
                            n >= k + 2 /\ \A j \in (k + 2)..n : IsDot(s[j])})
         IN  <<SubSeq(s, 1, 10), SubSeq(s, 12, 19),
               SubSeq(s, 21, k), SubSeq(s, k + 2, e)>>
    ELSE NoMatch

-----------------------------------------------------------------------------
(* pd.to_datetime on "YYYY-MM-DD HH:MM:SS" (errors="raise")                *)

IsLeap(y) == (y % 4 = 0 /\ y % 100 # 0) \/ y % 400 = 0

DaysInMonth(y, m) ==
    IF m = 2 THEN (IF IsLeap(y) THEN 29 ELSE 28)
    ELSE IF m \in {4, 6, 9, 11} THEN 30 ELSE 31

\* Days from 1970-01-01 to the civil date y-m-d.
DaysFromCivil(y, m, d) ==
    LET yy  == IF m <= 2 THEN y - 1 ELSE y
        era == yy \div 400
        yoe == yy - era * 400
        mp  == IF m > 2 THEN m - 3 ELSE m + 9
        doy == (153 * mp + 2) \div 5 + d - 1
        doe == yoe * 365 + yoe \div 4 - yoe \div 100 + doy
    IN  era * 146097 + doe - 719468

TsYear(ts)   == Num(SubSeq(ts, 1, 4))
TsMonth(ts)  == Num(SubSeq(ts, 6, 7))
TsDay(ts)    == Num(SubSeq(ts, 9, 10))
TsHour(ts)   == Num(SubSeq(ts, 12, 13))
TsMinute(ts) == Num(SubSeq(ts, 15, 16))
TsSecond(ts) == Num(SubSeq(ts, 18, 19))

\* Whether the text names a calendar date and a clock time.  (The years of
\* the modelled inputs lie inside the range every datetime64 unit represents.)
ValidDatetime(ts) ==
    /\ TsYear(ts) >= 1
    /\ TsMonth(ts) \in 1..12
    /\ TsDay(ts) \in 1..DaysInMonth(TsYear(ts), TsMonth(ts))
    /\ TsHour(ts) \in 0..23
    /\ TsMinute(ts) \in 0..59
    /\ TsSecond(ts) \in 0..59

\* The Timestamp of a valid text: days since the epoch and second of the day.
ToDatetime(ts) ==
    [days |-> DaysFromCivil(TsYear(ts), TsMonth(ts), TsDay(ts)),
     secs |-> TsHour(ts) * 3600 + TsMinute(ts) * 60 + TsSecond(ts)]

\* Timestamp comparison, as sort_values compares the column.
TsLeq(a, b) == a.days < b.days \/ (a.days = b.days /\ a.secs <= b.secs)

\* .dt.hour and .dt.weekday (Monday = 0; 1970-01-01 was a Thursday)
DtHour(t) == t.secs \div 3600
DtWeekday(t) == (t.days + 3) % 7

-----------------------------------------------------------------------------
(* Feature engineering *)

\* A cell of a float64 column: <<n>> holds the number n, <<>> is NaN (missing).
NaN == <<>>
Float(n) == <<n>>

TRACE == <<"T", "R", "A", "C", "E">>
DEBUG == <<"D", "E", "B", "U", "G">>
INFO  == <<"I", "N", "F", "O">>
WARN  == <<"W", "A", "R", "N">>
ERROR == <<"E", "R", "R", "O", "R">>
FATAL == <<"F", "A", "T", "A", "L">>

\* The dict level_mapping: its keys in insertion order, and its lookup.
LevelKeys == <<TRACE, DEBUG, INFO, WARN, ERROR, FATAL>>

\* (the scores of WARN and ERROR exchanged)
level_mapping_Swapped(level) ==
    CASE level = TRACE -> 1
      [] level = DEBUG -> 2
      [] level = INFO  -> 3
      [] level = WARN  -> 5
      [] level = ERROR -> 4
      [] level = FATAL -> 6

level_mapping(level) ==
    CASE level = TRACE -> 1
      [] level = DEBUG -> 2
      [] level = INFO  -> 3
      [] level = WARN  -> 4
      [] level = ERROR -> 5
      [] level = FATAL -> 6

\* (a lookup with a default, as in .map(...).fillna(0))
MapLevel_Default(level) ==
    IF \E n \in 1..Len(LevelKeys) : LevelKeys[n] = level
    THEN Float(level_mapping(level)) ELSE Float(0)

\* Series.map(dict): the value of a key of the dict, NaN for anything else.
MapLevel(level) ==
    IF \E n \in 1..Len(LevelKeys) : LevelKeys[n] = level
    THEN Float(level_mapping(level)) ELSE NaN

\* pd.DataFrame(data, columns=...) followed by the to_datetime of line 31.
FrameRow(rec) ==
    [timestamp |-> ToDatetime(rec[1]), level |-> rec[2], message |-> rec[3]]

\* (message_length counting the characters that are not spaces)
FeatureRow_NoSpaces(row) ==
    [timestamp      |-> row.timestamp,
     level          |-> row.level,
     message        |-> row.message,
     level_score    |-> MapLevel(row.level),
     message_length |-> Len(SelectSeq(row.message, LAMBDA c : c # " ")),
     hour           |-> DtHour(row.timestamp),
     weekday        |-> DtWeekday(row.timestamp)]

\* Lines 43-48 applied to one row.
FeatureRow(row) ==
    [timestamp      |-> row.timestamp,
     level          |-> row.level,
     message        |-> row.message,
     level_score    |-> MapLevel(row.level),
     message_length |-> Len(row.message),
     hour           |-> DtHour(row.timestamp),
     weekday        |-> DtWeekday(row.timestamp)]

\* df[features]: the float matrix handed to the model, one row per row of df.
FeatureMatrix(rows) ==
    [k \in 1..Len(rows) |->
        <<rows[k].level_score, Float(rows[k].message_length),
          Float(rows[k].hour), Float(rows[k].weekday)>>]

HasNaN(X) == \E k \in 1..Len(X) : \E c \in 1..Len(X[k]) : X[k][c] = NaN

-----------------------------------------------------------------------------
(* Anomaly detection *)

\* What IsolationForest(contamination=0.1, random_state=42).fit_predict(X)
\* can do.  The forest is a black box: it returns one value of {-1, 1} per
\* row.  An empty matrix is rejected with a ValueError.  A matrix holding NaN
\* is rejected by the releases that require finite input and scored by the
\* releases that accept missing values.
Raised == [raised |-> TRUE]
Returned(y) == [raised |-> FALSE, y |-> y]

FitPredictOutcomes(X) ==
    IF Len(X) = 0 THEN {Raised}
    ELSE (IF HasNaN(X) THEN {Raised} ELSE {})
         \cup {Returned(y) : y \in [1..Len(X) -> {-1, 1}]}

\* (the test of the lambda inverted)
IsAnomalyLabel_Inverted(x) == IF x = 1 THEN "Anomaly" ELSE "Normal"

\* Line 54: the lambda applied to one prediction.
IsAnomalyLabel(x) == IF x = -1 THEN "Anomaly" ELSE "Normal"

ScoredRow(row, x) ==
    [timestamp      |-> row.timestamp,
     level          |-> row.level,
     message        |-> row.message,
     level_score    |-> row.level_score,
     message_length |-> row.message_length,
     hour           |-> row.hour,
     weekday        |-> row.weekday,
     anomaly        |-> x,
     is_anomaly     |-> IsAnomalyLabel(x)]

-----------------------------------------------------------------------------
(* Filter, sort and output *)

\* The positions of the rows kept by df[df["is_anomaly"] == "Anomaly"].
RECURSIVE FilterIdx(_, _)
FilterIdx(rows, k) ==
    IF k > Len(rows) THEN <<>>
    ELSE IF rows[k].is_anomaly = "Anomaly"
         THEN <<k>> \o FilterIdx(rows, k + 1)
         ELSE FilterIdx(rows, k + 1)

\* Whether the sequence of positions ix lists its rows by non-decreasing
\* timestamp.
SortedBy(rows, ix) ==
    \A a, b \in 1..Len(ix) :
        a < b => TsLeq(rows[ix[a]].timestamp, rows[ix[b]].timestamp)

IndexPermutations(ix) ==
    {p \in [1..Len(ix) -> 1..Len(ix)] :
        \A a, b \in 1..Len(ix) : a # b => p[a] # p[b]}

\* sort_values("timestamp") with the default kind="quicksort": the result is
\* some ordering of the rows by non-decreasing timestamp; the order of rows
\* with equal timestamps is whatever the unstable sort leaves.
SortValues(rows, ix) ==
    {[a \in 1..Len(ix) |-> ix[p[a]]] : p \in
        {q \in IndexPermutations(ix) :
            SortedBy(rows, [a \in 1..Len(ix) |-> ix[q[a]]])}}

\* The banner of line 75 and the table of lines 76-81: the five displayed
\* columns of each row under the fixed headers, without the index column.
Banner == "\n Detected Anomalies:\n"
Headers == <<"Timestamp", "Level", "Message", "Level Score", "Msg Length">>

DisplayRow(row) ==
    <<row.timestamp, row.level, row.message, row.level_score,
      row.message_length>>

Tabulate(rows) ==
    [headers |-> Headers,
     rows    |-> [k \in 1..Len(rows) |-> DisplayRow(rows[k])]]

-----------------------------------------------------------------------------
(* Input files *)

Date_Mon     == <<"2", "0", "2", "4", "-", "0", "1", "-", "0", "1">>
Date_Tue     == <<"2", "0", "2", "4", "-", "0", "1", "-", "0", "2">>
Date_Month13 == <<"2", "0", "2", "4", "-", "1", "3", "-", "0", "1">>
Date_Short   == <<"2", "0", "2", "4", "-", "1", "-", "0", "1">>
Time_10      == <<"1", "0", ":", "0", "0", ":", "0", "0">>
Time_09      == <<"0", "9", ":", "3", "0", ":", "0", "0">>
Time_25      == <<"2", "5", ":", "0", "0", ":", "0", "0">>
SP           == <<" ">>
NL           == <<"\n">>

LogLine(date, time, level, message) ==
    date \o SP \o time \o SP \o level \o SP \o message \o NL

\* The lines an input file is made of: well-formed lines (two of them with the
\* same timestamp, one earlier, one on another day), a lower-case level, dates
\* and times of the right shape that name no date or time, and malformed lines.
LineSet ==
    { LogLine(Date_Mon, Time_10, INFO, <<"o", "k">>),
      LogLine(Date_Mon, Time_10, ERROR, <<"a", " ", "b">>),
      LogLine(Date_Mon, Time_09, DEBUG, <<"x">>),
      LogLine(Date_Tue, Time_09, WARN, <<"u", "p">>),
      LogLine(Date_Mon, Time_10, <<"i", "n", "f", "o">>, <<"o", "k">>),
      LogLine(Date_Month13, Time_10, INFO, <<"o", "k">>),
      LogLine(Date_Mon, Time_25, INFO, <<"o", "k">>),
      LogLine(Date_Short, Time_10, INFO, <<"o", "k">>),
      Date_Mon \o SP \o Time_10 \o SP \o INFO \o SP \o NL,
      NL,
      <<" ", "\t">> \o LogLine(Date_Mon, Time_10, INFO, <<" ", "o", "k", " ">>),
      LogLine(Date_Mon, Time_10, <<"E", "R", "-", "R", "O", "R">>, <<"x">>) }

RECURSIVE SeqsUpTo(_, _)
SeqsUpTo(S, n) ==
    IF n = 0 THEN {<<>>}
    ELSE LET shorter == SeqsUpTo(S, n - 1)
         IN  shorter \cup {Append(q, x) : q \in {r \in shorter : Len(r) = n - 1},
                                          x \in S}

-----------------------------------------------------------------------------
(* The script, statement by statement *)

Init ==
    /\ fileExists \in BOOLEAN
    /\ file \in (IF fileExists THEN SeqsUpTo(LineSet, MaxLines) ELSE {<<>>})
    /\ pc = "open"
    /\ i = 0
    /\ data = <<>>
    /\ df = <<>>
    /\ anomalies = <<>>
    /\ stdout = <<>>
    /\ err = "none"

\* An uncaught exception: the interpreter exits, nothing else runs.
Abort(e) ==
    /\ pc' = "aborted"
    /\ err' = e

\* (the banner written at the top of the script, before the file is opened)
OpenFile_BannerFirst ==
    /\ pc = "open"
    /\ stdout' = Append(stdout, [kind |-> "text", text |-> Banner])
    /\ IF fileExists
       THEN pc' = "parse" /\ err' = err
       ELSE Abort("FileNotFoundError")
    /\ UNCHANGED <<fileExists, file, i, data, df, anomalies>>

\* Line 20: open(log_file_path, "r")
OpenFile ==
    /\ pc = "open"
    /\ IF fileExists
       THEN pc' = "parse" /\ err' = err
       ELSE Abort("FileNotFoundError")
    /\ UNCHANGED <<fileExists, file, i, data, df, anomalies, stdout>>

\* The record appended for a match object m (lines 24-27).
Record(m) == <<m[1] \o SP \o m[2], m[3], m[4]>>

\* Lines 21-27: one iteration of the loop over the lines of the file.
ParseLine ==
    /\ pc = "parse"
    /\ i < Len(file)
    /\ LET match == Match(Strip(file[i + 1]))
       IN  data' = IF match # NoMatch THEN Append(data, Record(match)) ELSE data
    /\ i' = i + 1
    /\ UNCHANGED <<fileExists, file, pc, df, anomalies, stdout, err>>

\* The loop is exhausted and the with block closes the file.
EndOfFile ==
    /\ pc = "parse"
    /\ i = Len(file)
    /\ pc' = "frame"
    /\ UNCHANGED <<fileExists, file, i, data, df, anomalies, stdout, err>>

\* (to_datetime with errors="coerce" and the unconverted rows dropped)
CreateDataFrame_Coerce ==
    /\ pc = "frame"
    /\ LET good == SelectSeq(data, LAMBDA rec : ValidDatetime(rec[1]))
       IN  df' = [k \in 1..Len(good) |-> FrameRow(good[k])]
    /\ pc' = "features"
    /\ UNCHANGED <<fileExists, file, i, data, anomalies, stdout, err>>

\* Lines 30-31: the DataFrame and the conversion of its timestamp column,
\* which raises on the first text that names no date and time.
CreateDataFrame ==
    /\ pc = "frame"
    /\ IF \A k \in 1..Len(data) : ValidDatetime(data[k][1])
       THEN /\ df' = [k \in 1..Len(data) |-> FrameRow(data[k])]
            /\ pc' = "features"
            /\ err' = err
       ELSE /\ Abort("ValueError: to_datetime")
            /\ df' = df
    /\ UNCHANGED <<fileExists, file, i, data, anomalies, stdout>>

\* Lines 43-48: the four feature columns.
FeatureEngineering ==
    /\ pc = "features"
    /\ df' = [k \in 1..Len(df) |-> FeatureRow(df[k])]
    /\ pc' = "score"
    /\ UNCHANGED <<fileExists, file, i, data, anomalies, stdout, err>>

\* Lines 51-54: fit_predict on df[features] and the two label columns.
FitPredict ==
    /\ pc = "score"
    /\ \E out \in FitPredictOutcomes(FeatureMatrix(df)) :
          IF out.raised
          THEN /\ Abort("ValueError: fit_predict")
               /\ df' = df
          ELSE /\ df' = [k \in 1..Len(df) |-> ScoredRow(df[k], out.y[k])]
               /\ pc' = "report"
               /\ err' = err
    /\ UNCHANGED <<fileExists, file, i, data, anomalies, stdout>>

\* Line 71: anomalies, as the index labels of its rows in their new order.
FilterSort ==
    /\ pc = "report"
    /\ anomalies' \in SortValues(df, FilterIdx(df, 1))
    /\ pc' = "banner"
    /\ UNCHANGED <<fileExists, file, i, data, df, stdout, err>>

\* Line 75
WriteBanner ==
    /\ pc = "banner"
    /\ stdout' = Append(stdout, [kind |-> "text", text |-> Banner])
    /\ pc' = "table"
    /\ UNCHANGED <<fileExists, file, i, data, df, anomalies, err>>

\* Lines 76-81
WriteTable ==
    /\ pc = "table"
    /\ stdout' = Append(stdout,
          [kind |-> "table",
           table |-> Tabulate([k \in 1..Len(anomalies) |-> df[anomalies[k]]])])
    /\ pc' = "done"
    /\ UNCHANGED <<fileExists, file, i, data, df, anomalies, err>>

Next ==
    \/ OpenFile
    \/ ParseLine
    \/ EndOfFile
    \/ CreateDataFrame
    \/ FeatureEngineering
    \/ FitPredict
    \/ FilterSort
    \/ WriteBanner
    \/ WriteTable

Spec == Init /\ [][Next]_vars

-----------------------------------------------------------------------------
(* The expected line format, stated on its own:                            *)
(*   YYYY-MM-DD HH:MM:SS LEVEL free-text message                           *)

WordChars == Digits \cup Letters \cup {"_"}

DateShaped(t) ==
    /\ Len(t) = 10
    /\ \A p \in {1, 2, 3, 4, 6, 7, 9, 10} : t[p] \in Digits
    /\ t[5] = "-" /\ t[8] = "-"

TimeShaped(t) ==
    /\ Len(t) = 8
    /\ \A p \in {1, 2, 4, 5, 7, 8} : t[p] \in Digits
    /\ t[3] = ":" /\ t[6] = ":"

WordToken(t) == Len(t) >= 1 /\ \A p \in 1..Len(t) : t[p] \in WordChars

RestOfLine(t) == Len(t) >= 1 /\ \A p \in 1..Len(t) : t[p] # "\n"

\* The line without its leading and trailing whitespace.
Trimmed(s) ==
    IF \A p \in 1..Len(s) : s[p] \in Whitespace THEN <<>>
    ELSE SubSeq(s,
           CHOOSE p \in 1..Len(s) :
              s[p] \notin Whitespace /\ \A q \in 1..(p - 1) : s[q] \in Whitespace,
           CHOOSE p \in 1..Len(s) :
              s[p] \notin Whitespace /\ \A q \in (p + 1)..Len(s) : s[q] \in Whitespace)

\* Every way to read s as date, space, time, space, level, space, message:
\* the three separating spaces are at a < b < c.
Readings(s) ==
    LET spaces == {p \in 1..Len(s) : s[p] = " "}
        As     == {a \in spaces : DateShaped(SubSeq(s, 1, a - 1))}
        Bs(a)  == {b \in spaces : b > a /\ TimeShaped(SubSeq(s, a + 1, b - 1))}
        Cs(b)  == {c \in spaces : /\ c > b
                                  /\ WordToken(SubSeq(s, b + 1, c - 1))
                                  /\ RestOfLine(SubSeq(s, c + 1, Len(s)))}
    IN  UNION {UNION {{<<SubSeq(s, 1, a - 1), SubSeq(s, a + 1, b - 1),
                         SubSeq(s, b + 1, c - 1), SubSeq(s, c + 1, Len(s))>> :
                           c \in Cs(b)} : b \in Bs(a)} : a \in As}

WellFormedLine(line) == Readings(Trimmed(line)) # {}

\* The record the format prescribes for a reading.
RecordOf(r) == <<r[1] \o <<" ">> \o r[2], r[3], r[4]>>

\* One record per well-formed line, in file order.
RECURSIVE ExpectedRecords(_)
ExpectedRecords(lines) ==
    IF lines = <<>> THEN <<>>
    ELSE LET front == ExpectedRecords(SubSeq(lines, 1, Len(lines) - 1))
             rs    == Readings(Trimmed(lines[Len(lines)]))
         IN  IF rs # {} THEN Append(front, RecordOf(CHOOSE r \in rs : TRUE))
             ELSE front

-----------------------------------------------------------------------------
(* Claims *)

\* C1: at every point of the parse loop and when it has ended, `data` holds
\* exactly one record per consumed line that, once stripped, reads as
\* date SP time SP word-token SP rest-of-line, in file order, with
\* timestamp = date + " " + time, level = the token and message = the rest;
\* such a line has one reading only; no other line yields a record and no
\* matching line is skipped or duplicated.
C1_ParserOutput ==
    pc \in {"parse", "frame"} =>
        /\ i > 0 => Cardinality(Readings(Trimmed(file[i]))) <= 1
        /\ data = ExpectedRecords(SubSeq(file, 1, i))
        /\ pc = "frame" => i = Len(file)

\* C1 witness: the loop has finished a three-line file whose second line does
\* not match and whose other two lines gave two different records, one of
\* them from a line with surrounding whitespace.
C1_Witness ==
    /\ pc = "frame" /\ Len(file) = 3 /\ i = 3
    /\ ~WellFormedLine(file[2])
    /\ Len(data) = 2 /\ data[1] # data[2]
    /\ file[1][1] \in Whitespace

\* C2: a step of the parse loop over a malformed line (one that does not read
\* as the expected format) leaves `data` as it is, moves on to the next line
\* and raises nothing; and the records the loop ends with are those of the
\* file with its malformed lines deleted.
C2_MalformedSkipped ==
    /\ [][(pc = "parse" /\ i < Len(file) /\ ~WellFormedLine(file[i + 1]))
            => (data' = data /\ i' = i + 1 /\ pc' = "parse" /\ err' = "none")]_vars
    /\ [](pc = "frame" => data = ExpectedRecords(SelectSeq(file, WellFormedLine)))

\* C2 witness: a run that reached its end over a file that starts with a
\* malformed line and has two well-formed lines after it.
C2_Witness ==
    /\ pc = "done" /\ err = "none" /\ Len(file) = 3
    /\ ~WellFormedLine(file[1])
    /\ Len(data) = 2

\* The printed table lists the rows of `anomalies` in their order.
TableRows == stdout[2].table.rows

\* C3: the printed rows are ordered by non-decreasing timestamp, and rows
\* with equal timestamps are printed in the order they have in the input file.
C3_StableSort ==
    pc = "done" =>
        \A a, b \in 1..Len(anomalies) :
            a < b => /\ TsLeq(df[anomalies[a]].timestamp, df[anomalies[b]].timestamp)
                     /\ df[anomalies[a]].timestamp = df[anomalies[b]].timestamp
                          => anomalies[a] < anomalies[b]

\* What line 71 does guarantee: the printed rows are the anomalous rows, each
\* once, ordered by non-decreasing timestamp.
SortedByTimestamp ==
    pc = "done" =>
        /\ Len(TableRows) = Len(anomalies)
        /\ \A a, b \in 1..Len(TableRows) :
              a < b => TsLeq(TableRows[a][1], TableRows[b][1])
        /\ \A a \in 1..Len(anomalies) :
              TableRows[a] = DisplayRow(df[anomalies[a]])
        /\ \A a, b \in 1..Len(anomalies) : a # b => anomalies[a] # anomalies[b]
        /\ {anomalies[a] : a \in 1..Len(anomalies)}
              = {k \in 1..Len(df) : df[k].is_anomaly = "Anomaly"}

\* C4: a run over a file with no matching line ends without error,
\* with the banner and a header-only table on standard output.
C4_EmptyInputPrintsHeaders ==
    (fileExists /\ pc \in {"done", "aborted"} /\ ExpectedRecords(file) = <<>>)
        => /\ pc = "done" /\ err = "none"
           /\ Len(stdout) = 2
           /\ stdout[2].table = [headers |-> Headers, rows |-> <<>>]

\* The six severities in rising order.
SeverityOrder == <<TRACE, DEBUG, INFO, WARN, ERROR, FATAL>>
KnownLevels == {SeverityOrder[n] : n \in 1..6}
FeaturesBuilt == pc \in {"score", "report", "banner", "table", "done"}

C6_UnknownLevelKept ==
    /\ err \in {"none", "FileNotFoundError", "ValueError: to_datetime",
                "ValueError: fit_predict"}
    /\ err = "ValueError: to_datetime"
          => \E k \in 1..Len(data) : ~ValidDatetime(data[k][1])
    /\ pc = "frame" =>
          Len(data) = Len(SelectSeq(file, WellFormedLine))
    /\ pc = "score" =>
          /\ err = "none"
          /\ Len(df) = Len(data)
          /\ Len(FeatureMatrix(df)) = Len(data)
          /\ \A k \in 1..Len(data) :
                data[k][2] \notin KnownLevels =>
                   /\ df[k].level = data[k][2]
                   /\ df[k].level_score = <<>>
                   /\ FeatureMatrix(df)[k][1] = <<>>

\* C6 witness: the model is about to be fitted on a matrix of two rows, the
\* second of which has no level_score.
C6_Witness ==
    /\ pc = "score" /\ Len(df) = 2
    /\ df[1].level \in KnownLevels
    /\ df[2].level \notin KnownLevels
    /\ FeatureMatrix(df)[2][1] = <<>>
    /\ FeatureMatrix(df)[1][1] # <<>>

Scored == pc \in {"report", "banner", "table", "done"}
AnomalousRows == {k \in 1..Len(df) : df[k].anomaly = -1}

\* A step taken after the scorer has returned raises nothing, moves to the
\* next statement and, when it is the last, leaves the headers alone in the
\* table if no row is anomalous.
ReporterStep ==
    pc \in {"report", "banner", "table"} =>
        /\ err' = "none"
        /\ pc' = (IF pc = "report" THEN "banner"
                  ELSE IF pc = "banner" THEN "table" ELSE "done")
        /\ (pc' = "done" /\ AnomalousRows = {})
              => stdout'[2].table = [headers |-> Headers, rows |-> <<>>]

\* C7: every scored row is labelled Anomaly or Normal, Anomaly exactly when
\* the model returned -1; the printed table holds each row labelled Anomaly
\* once and no row labelled Normal; and from the scorer's return on, whether
\* or not any row is anomalous, the run can always take its next step, no
\* step raises, and the last one leaves the banner and the table (the headers
\* alone when no row is anomalous) on standard output.
C7_ReporterRows ==
    /\ [](Scored =>
            \A k \in 1..Len(df) :
               /\ df[k].is_anomaly \in {"Anomaly", "Normal"}
               /\ df[k].is_anomaly = "Anomaly" <=> df[k].anomaly = -1)
    /\ [](pc = "done" =>
            /\ err = "none"
            /\ Len(stdout) = 2
            /\ stdout[2].table.headers = Headers
            /\ Len(TableRows) = Cardinality(AnomalousRows)
            /\ \A k \in AnomalousRows :
                  Cardinality({a \in 1..Len(TableRows) : TableRows[a] = DisplayRow(df[k])})
                     = Cardinality({j \in AnomalousRows : DisplayRow(df[j]) = DisplayRow(df[k])}))
    /\ [](pc \in {"report", "banner", "table"}
            => ENABLED (FilterSort \/ WriteBanner \/ WriteTable))
    /\ [][ReporterStep]_vars

\* C7 witness: of three scored rows, the one labelled Anomaly was printed and
\* the two labelled Normal were not.
C7_Witness ==
    /\ pc = "done" /\ Len(df) = 3
    /\ df[1].is_anomaly = "Normal" /\ df[2].is_anomaly = "Anomaly"
    /\ df[3].is_anomaly = "Normal"
    /\ TableRows = <<DisplayRow(df[2])>>

\* C8: when the file is missing the run is aborted by FileNotFoundError with
\* nothing on standard output; and whatever exception ends a run, nothing was
\* written before it: the first write happens only after the parser, the
\* feature builder and the scorer have finished.
C8_NoPartialOutput ==
    /\ (~fileExists /\ pc # "open")
          => (pc = "aborted" /\ err = "FileNotFoundError" /\ stdout = <<>>)
    /\ err # "none" => (pc = "aborted" /\ stdout = <<>>)
    /\ pc = "aborted" => err # "none"
    /\ stdout # <<>> => (pc \in {"table", "done"} /\ err = "none")

\* C8 witness: the run over a missing file has been aborted.
C8_Witness ==
    /\ ~fileExists /\ pc = "aborted" /\ err = "FileNotFoundError"
    /\ stdout = <<>>

\* C9: once the features are built there is one row per record, in the same
\* order, with the record's level and message, and message_length is the
\* number of characters of the message, spaces included; the message is the
\* end of the stripped line, after the space that follows the level; and the
\* feature-building step leaves timestamp, level and message of every row as
\* they were.
C9_MessageLength ==
    /\ [](FeaturesBuilt =>
            /\ Len(df) = Len(data)
            /\ \A k \in 1..Len(df) :
                  /\ df[k].level = data[k][2]
                  /\ df[k].message = data[k][3]
                  /\ df[k].message_length = Cardinality(DOMAIN data[k][3]))
    /\ [](pc = "score" =>
            LET lines == SelectSeq(file, WellFormedLine)
            IN  /\ Len(lines) = Len(df)
                /\ \A k \in 1..Len(df) :
                      LET t == Trimmed(lines[k])
                          n == df[k].message_length
                      IN  /\ n < Len(t)
                          /\ SubSeq(t, Len(t) - n + 1, Len(t)) = df[k].message
                          /\ t[Len(t) - n] = " ")
    /\ [][pc = "features" =>
            /\ Len(df') = Len(df)
            /\ \A k \in 1..Len(df) :
                  /\ df'[k].timestamp = df[k].timestamp
                  /\ df'[k].level = df[k].level
                  /\ df'[k].message = df[k].message]_vars

\* C9 witness: the features are built for a message with a space inside and
\* for a message that begins with a space; each counts three characters.
C9_Witness ==
    /\ pc = "score" /\ Len(df) = 2
    /\ df[1].message = <<"a", " ", "b">> /\ df[1].message_length = 3
    /\ df[2].message = <<" ", "o", "k">> /\ df[2].message_length = 3

\* C10: the parse loop raises nothing and, when it ends, has consumed the
\* whole file and holds a record for every line of the expected shape, those
\* whose digits name no date or time included; such a record aborts the run at
\* the conversion of the timestamp column, with no DataFrame built and nothing
\* written, and that exception has no other cause.
C10_InvalidDateKept ==
    /\ pc = "parse" => err = "none"
    /\ pc = "frame" =>
          /\ err = "none" /\ i = Len(file)
          /\ Len(data) = Len(SelectSeq(file, WellFormedLine))
    /\ (pc \notin {"open", "parse", "frame"}
          /\ \E k \in 1..Len(data) : ~ValidDatetime(data[k][1]))
          => /\ pc = "aborted" /\ err = "ValueError: to_datetime"
             /\ df = <<>> /\ stdout = <<>>
    /\ err = "ValueError: to_datetime"
          => (pc = "aborted" /\ \E k \in 1..Len(data) : ~ValidDatetime(data[k][1]))

\* C10 witness: the run was aborted at the conversion; every one of the three
\* lines has its record, the second with month 13 and the third with hour 25.
C10_Witness ==
    /\ pc = "aborted" /\ err = "ValueError: to_datetime"
    /\ Len(file) = 3 /\ Len(data) = 3
    /\ ValidDatetime(data[1][1])
    /\ TsMonth(data[2][1]) = 13
    /\ TsHour(data[3][1]) = 25

====
